---- MODULE Spec2Model ----
(***************************************************************************)
(* Order-book reconstruction engine of reconstruct.cpp: the registry       *)
(* orders_, the two ladders bids_ and offers_, and the driver loop that    *)
(* applies one decoded MboMessage per iteration and takes a snapshot.      *)
(*                                                                         *)
(* Ladder entries are raw pointers in the source.  A pointer is modelled   *)
(* as an address: EvtAddr is the address of the driver loop's per-line     *)
(* event object, 1..NumAddr are heap addresses of registry nodes.  A       *)
(* pointer whose target has been destroyed is dangling; reading through it *)
(* is undefined behaviour and yields an arbitrary value.                   *)
(***************************************************************************)
EXTENDS Integers, Sequences, FiniteSets, TLC

\* ---------------------------------------------------------------- bounds
MaxId == 2
MaxPrice == 2
MaxSize == 2
MaxRefs == 2
MaxLines == 4
MaxStreamIds == 3
MaxStreamLines == 6
MaxAddLines == 3
MaxDepth == 3

\* ------------------------------------------------------------- constants
\* 1u << 6, the top-of-book-replacement bit of MboMessage::flags
TOB_BIT == 64
\* default depth of OrderBook::snapshot, the one main uses
DEFAULT_DEPTH == 10

Ids == 1..MaxId
\* Order ids of the streams made of Adds and Cancels only.
StreamIds == 1..MaxStreamIds
Prices == 1..MaxPrice
Sizes == 1..MaxSize
Flags == {0, TOB_BIT}
Sides == {"B", "A", "N"}
Actions == {"A", "M", "C", "R", "T", "F", "N"}

\* numeric_limits<int64_t>::max(): the greatest key a ladder can hold.  It is
\* kept as the value right above the modelled price range.
PRICE_UNDEF == MaxPrice + 1

\* The fields of MboMessage the engine reads or copies.
MboMessage ==
  [action : Actions, side : Sides, price : Prices, size : Sizes,
   flags : Flags, order_id : Ids \cup StreamIds]

\* Heap addresses available to registry nodes: one more than there are ids,
\* so that a new node can land on a freed address or on a fresh one.
NumAddr == Cardinality(Ids \cup StreamIds) + 1
Addrs == 1..NumAddr
\* Address of the event object `m` that main passes to apply.
EvtAddr == 0

NoMsg == [action |-> "N", side |-> "N", price |-> 1, size |-> 1,
          flags |-> 0, order_id |-> 1]

\* The copy of an event a registry node holds.  The copied action (like the
\* timestamps, sequence and symbol) is never read back and is left out.
Stored(m) == [side |-> m.side, price |-> m.price, size |-> m.size,
              flags |-> m.flags, order_id |-> m.order_id]

VARIABLES
  orders_,   \* registry: order id -> [addr, msg], msg the stored MboMessage
  bids_,     \* price -> sequence of pointers (addresses)
  offers_,   \* price -> sequence of pointers (addresses)
  ev,        \* the MboMessage of the current loop iteration (`m` in main)
  evLive,    \* ladders ("bids"/"offers") holding a pointer to the live `m`
  synth,     \* history: ladder -> price of an untouched synthetic level, or 0
  lines,     \* number of input lines processed so far
  added,     \* history of an Add/Cancel-only stream: the order ids it has added
  addLog     \* history of an Add-only stream: the Add events it has applied

vars == <<orders_, bids_, offers_, ev, evLive, synth, lines, added, addLog>>

\* ------------------------------------------------------------- helpers
IsTob(f) == (f \div TOB_BIT) % 2 = 1

EmptyLadder == [p \in {} |-> <<>>]

\* std::remove + erase: drop every element equal to a.
RECURSIVE RemoveAll(_, _)
RemoveAll(vec, a) ==
  IF vec = <<>> THEN <<>>
  ELSE IF Head(vec) = a THEN RemoveAll(Tail(vec), a)
       ELSE <<Head(vec)>> \o RemoveAll(Tail(vec), a)

\* std::map::operator[]: the level at p, default-constructed when absent.
At(lvl, p) == IF p \in DOMAIN lvl THEN lvl[p] ELSE <<>>

\* lvl[p] = vec
Put(lvl, p, vec) == [q \in DOMAIN lvl \cup {p} |-> IF q = p THEN vec ELSE lvl[q]]

\* std::map::erase(key)
EraseKey(lvl, p) == [q \in DOMAIN lvl \ {p} |-> lvl[q]]

UsedAddrs == {orders_[k].addr : k \in DOMAIN orders_}

\* Every level stays within the modelled vector length.
WithinRefs(lvl) == \A p \in DOMAIN lvl : Len(lvl[p]) <= MaxRefs

Init ==
  /\ orders_ = [k \in {} |-> 0]
  /\ bids_ = EmptyLadder
  /\ offers_ = EmptyLadder
  /\ ev = NoMsg
  /\ evLive = {}
  /\ synth = [lad \in {"bids", "offers"} |-> 0]
  /\ lines = 0
  /\ added = {}
  /\ addLog = {}

\* ------------------------------------------------------------ the engine
\* A book is [orders, bids, offers, live]; every operation maps a book and an
\* event to the set of books the code can produce.

\* (m.side == Side::B ? bids_ : offers_)
LadderOf(side) == IF side = "B" THEN "bids" ELSE "offers"

Free(b) == Addrs \ {b.orders[k].addr : k \in DOMAIN b.orders}

\* Addresses some ladder entry holds.
Held(lvl) == UNION {{lvl[p][i] : i \in 1..Len(lvl[p])} : p \in DOMAIN lvl}

\* Where the allocator can put a new node: on any freed address a ladder
\* still points to, or on an address nothing points to (these are
\* interchangeable, the least one stands for all of them).
AllocChoices(b) ==
  LET stale == Free(b) \cap (Held(b.bids) \cup Held(b.offers))
      clean == Free(b) \ stale
  IN stale \cup {a \in clean : \A c \in clean : a <= c}

\* OrderBook::clear
\* clear without offers_.clear().
clearKeepsOffers(b) ==
  {[orders |-> [k \in {} |-> 0], bids |-> EmptyLadder, offers |-> b.offers, live |-> {}]}

clear(b) ==
  {[orders |-> [k \in {} |-> 0], bids |-> EmptyLadder, offers |-> EmptyLadder,
    live |-> {}]}

\* lvl[price].push_back(a)
PushBack(lvl, price, a) == Put(lvl, price, Append(At(lvl, price), a))

\* OrderBook::add.  emplace inserts nothing when the key is present; at(id)
\* then yields the node that was already there.
\* add without lvl.clear() in its flagged branch.
addNoClear(b, m) ==
  LET lad == LadderOf(m.side) IN
  IF IsTob(m.flags)
  THEN {[b EXCEPT ![lad] = Put(@, m.price, <<EvtAddr>>),
                  !.live = {lad}]}
  ELSE IF m.order_id \in DOMAIN b.orders
       THEN {[b EXCEPT ![lad] = PushBack(@, m.price, b.orders[m.order_id].addr)]}
       ELSE {[b EXCEPT !.orders = [k \in DOMAIN @ \cup {m.order_id} |->
                                     IF k = m.order_id
                                     THEN [addr |-> a, msg |-> Stored(m)] ELSE @[k]],
                       ![lad] = PushBack(@, m.price, a)] : a \in AllocChoices(b)}

add(b, m) ==
  LET lad == LadderOf(m.side) IN
  IF IsTob(m.flags)
  THEN {[b EXCEPT ![lad] = Put(EmptyLadder, m.price, <<EvtAddr>>),
                  !.live = {lad}]}
  ELSE IF m.order_id \in DOMAIN b.orders
       THEN {[b EXCEPT ![lad] = PushBack(@, m.price, b.orders[m.order_id].addr)]}
       ELSE {[b EXCEPT !.orders = [k \in DOMAIN @ \cup {m.order_id} |->
                                     IF k = m.order_id
                                     THEN [addr |-> a, msg |-> Stored(m)] ELSE @[k]],
                       ![lad] = PushBack(@, m.price, a)] : a \in AllocChoices(b)}

\* The subtraction without its guard: the size goes below zero (wraps, in
\* uint32) when more is cancelled than remains.
CancelSizeUnguarded(old, req) == old - req

\* msg.size > m.size ? msg.size - m.size : 0
CancelSize(old, req) == IF old > req THEN old - req ELSE 0

\* Values a read of msg.price can yield once orders_.erase(it) has destroyed
\* msg (line 169 reads it after line 166): any int64.
FreedPriceReads == Prices \cup {PRICE_UNDEF}

\* OrderBook::cancel
cancel(b, m) ==
  IF m.order_id \notin DOMAIN b.orders THEN {b}
  ELSE
    LET node == b.orders[m.order_id]
        msg == node.msg
        sz == CancelSize(msg.size, m.size)
        lad == LadderOf(m.side)
        vec == RemoveAll(At(b[lad], msg.price), node.addr)
    IN IF sz # 0
       THEN {[b EXCEPT !.orders[m.order_id].msg.size = sz,
                       ![lad] = Put(@, msg.price, Append(vec, node.addr))]}
       ELSE LET erased == [k \in DOMAIN b.orders \ {m.order_id} |-> b.orders[k]]
            IN IF vec = <<>>
               THEN {[b EXCEPT !.orders = erased,
                               ![lad] = EraseKey(Put(@, msg.price, vec), gp)]
                       : gp \in FreedPriceReads}
               ELSE {[b EXCEPT !.orders = erased,
                               ![lad] = Put(@, msg.price, vec)]}

\* OrderBook::modify
modify(b, m) ==
  IF m.order_id \notin DOMAIN b.orders THEN add(b, m)
  ELSE
    LET node == b.orders[m.order_id]
        msg == node.msg
        lad == LadderOf(msg.side)
        vec == RemoveAll(At(b[lad], msg.price), node.addr)
    IN IF msg.price # m.price
       THEN LET lvl1 == IF vec = <<>> THEN EraseKey(b[lad], msg.price)
                        ELSE Put(b[lad], msg.price, vec)
            IN {[b EXCEPT !.orders[m.order_id].msg = Stored(m),
                          ![lad] = PushBack(lvl1, m.price, node.addr)]}
       ELSE IF msg.size < m.size
            THEN {[b EXCEPT !.orders[m.order_id].msg = Stored(m),
                            ![lad] = Put(@, msg.price, Append(vec, node.addr))]}
            ELSE {[b EXCEPT !.orders[m.order_id].msg = Stored(m)]}

\* OrderBook::apply
apply(b, m) ==
  CASE m.action = "R" -> clear(b)
    [] m.action = "A" -> add(b, m)
    [] m.action = "C" -> cancel(b, m)
    [] m.action = "M" -> modify(b, m)
    [] OTHER -> {b}

\* --------------------------------------------------------------- snapshot
\* What a read through a dangling pointer can yield: any flags, any size.
GarbageVals == [flags : Flags, size : 0..MaxSize]

\* The pointers held by the ladders whose target is gone: a registry node
\* that was erased, or the event object of an earlier loop iteration.
Dangling ==
  {a \in Held(bids_) \cup Held(offers_) :
     IF a = EvtAddr THEN \/ EvtAddr \in Held(bids_) /\ "bids" \notin evLive
                         \/ EvtAddr \in Held(offers_) /\ "offers" \notin evLive
     ELSE a \notin UsedAddrs}

\* One outcome of the undefined reads of a snapshot: a value per dangling
\* pointer.
GarbageReads == [Dangling -> GarbageVals]

\* *p for a pointer p found in ladder lad.
Deref(a, lad, g) ==
  IF a = EvtAddr
  THEN IF lad \in evLive THEN [flags |-> ev.flags, size |-> ev.size] ELSE g[a]
  ELSE IF a \in UsedAddrs
       THEN LET k == CHOOSE k \in DOMAIN orders_ : orders_[k].addr = a
            IN [flags |-> orders_[k].msg.flags, size |-> orders_[k].msg.size]
       ELSE g[a]

\* The inner loop adding 1 where the code adds the member's size.
RECURSIVE AggregateUnit(_, _, _)
AggregateUnit(vec, lad, g) ==
  IF vec = <<>> THEN <<0, 0>>
  ELSE LET rest == AggregateUnit(Tail(vec), lad, g)
           d == Deref(Head(vec), lad, g)
       IN IF IsTob(d.flags) THEN rest ELSE <<rest[1] + 1, rest[2] + 1>>

\* The inner loop without its flag test: every member is summed and counted.
RECURSIVE AggregateAll(_, _, _)
AggregateAll(vec, lad, g) ==
  IF vec = <<>> THEN <<0, 0>>
  ELSE LET rest == AggregateAll(Tail(vec), lad, g)
           d == Deref(Head(vec), lad, g)
       IN <<rest[1] + d.size, rest[2] + 1>>

\* The inner loop of fill: <<sz, ct>> over the members that are not flagged.
\* Sizes stay far below 2^32, so the uint32 sums do not wrap here.
RECURSIVE Aggregate(_, _, _)
Aggregate(vec, lad, g) ==
  IF vec = <<>> THEN <<0, 0>>
  ELSE LET rest == Aggregate(Tail(vec), lad, g)
           d == Deref(Head(vec), lad, g)
       IN IF IsTob(d.flags) THEN rest
          ELSE <<rest[1] + d.size, rest[2] + 1>>

\* The i-th key of a ladder in iteration order: from rbegin when rev, from
\* begin otherwise.
\* The iteration with rbegin/rend taken for begin/end and back: the i-th key
\* from the wrong end.
KeyAtSwapped(lvl, rev, i) ==
  CHOOSE p \in DOMAIN lvl :
    Cardinality({q \in DOMAIN lvl : IF rev THEN q < p ELSE q > p}) = i - 1

KeyAt(lvl, rev, i) ==
  CHOOSE p \in DOMAIN lvl :
    Cardinality({q \in DOMAIN lvl : IF rev THEN q > p ELSE q < p}) = i - 1

\* fill without its padding loop: one row per level, at most depth.
fillNoPad(lad, rev, depth, g) ==
  LET lvl == IF lad = "bids" THEN bids_ ELSE offers_
      n == Cardinality(DOMAIN lvl)
  IN [i \in 1..(IF depth < n THEN depth ELSE n) |->
        LET p == KeyAt(lvl, rev, i)
            agg == Aggregate(lvl[p], lad, g)
        IN <<p, agg[1], agg[2]>>]

\* The lambda fill of snapshot: depth rows <<price, size, count>>.
fill(lad, rev, depth, g) ==
  LET lvl == IF lad = "bids" THEN bids_ ELSE offers_
      n == Cardinality(DOMAIN lvl)
  IN [i \in 1..depth |->
        IF i <= n
        THEN LET p == KeyAt(lvl, rev, i)
                 agg == Aggregate(lvl[p], lad, g)
             IN <<p, agg[1], agg[2]>>
        ELSE <<PRICE_UNDEF, 0, 0>>]

\* OrderBook::snapshot: the bid rows followed by the ask rows.
snapshot(depth, g) == fill("bids", TRUE, depth, g) \o fill("offers", FALSE, depth, g)

\* The rows of one side in the snapshot main takes after apply.
SideRows(lad, g) == fill(lad, lad = "bids", DEFAULT_DEPTH, g)

\* ------------------------------------------------------ history variables
\* The synthetic level a flagged Add installed on a ladder, while nothing the
\* claim about it excludes has happened: no Clear, no flagged Add on that
\* ladder, no Add/Modify/Cancel whose price or whose order's price is the
\* level's price.
TouchesPrice(b, m, p) ==
  /\ m.action \in {"A", "M", "C"}
  /\ \/ m.price = p
     \/ m.order_id \in DOMAIN b.orders /\ b.orders[m.order_id].msg.price = p

NextSynth(b, nb, m) ==
  [lad \in {"bids", "offers"} |->
     IF m.action = "R" THEN 0
     ELSE IF lad \in nb.live THEN m.price
     ELSE IF synth[lad] # 0 /\ TouchesPrice(b, m, synth[lad]) THEN 0
     ELSE synth[lad]]

\* ------------------------------------------------------------ driver loop
\* One iteration of main's loop for a line that decodes to m: the event
\* object of the previous iteration is gone, apply(m) runs.
Step(m, limit) ==
  /\ lines < limit
  /\ lines' = lines + 1
  /\ LET b == [orders |-> orders_, bids |-> bids_, offers |-> offers_, live |-> {}]
     IN \E nb \in apply(b, m) :
       /\ WithinRefs(nb.bids) /\ WithinRefs(nb.offers)
       /\ orders_' = nb.orders
       /\ bids_' = nb.bids
       /\ offers_' = nb.offers
       /\ evLive' = nb.live
       /\ ev' = m
       /\ synth' = NextSynth(b, nb, m)

\* The decoded lines fed to the loop.  Add and Modify events take every
\* combination of fields.  cancel never reads the event's flags, and apply
\* reads nothing but the action of a Clear, Trade, Fill or None event, so
\* those events vary only in the fields named here.
EventsOf(act) ==
  CASE act \in {"A", "M"} ->
         {m \in MboMessage : m.action = act /\ m.order_id \in Ids}
    [] act = "C" ->
         {m \in MboMessage : m.action = act /\ m.order_id \in Ids /\ m.flags = 0}
    [] OTHER -> {m \in MboMessage : /\ m.action = act /\ m.side = "N"
                                     /\ m.price = 1 /\ m.order_id = 1}

\* One line of a general stream, by the case of apply's switch it takes.
Clear ==
  /\ lines < MaxLines
  /\ UNCHANGED <<added, addLog>>
  /\ \E m \in EventsOf("R") : Step(m, MaxLines)

Add ==
  /\ lines < MaxLines
  /\ UNCHANGED <<added, addLog>>
  /\ \E m \in EventsOf("A") : Step(m, MaxLines)

Cancel ==
  /\ lines < MaxLines
  /\ UNCHANGED <<added, addLog>>
  /\ \E m \in EventsOf("C") : Step(m, MaxLines)

Modify ==
  /\ lines < MaxLines
  /\ UNCHANGED <<added, addLog>>
  /\ \E m \in EventsOf("M") : Step(m, MaxLines)

PassThrough ==
  /\ lines < MaxLines
  /\ UNCHANGED <<added, addLog>>
  /\ \E act \in {"T", "F", "N"} : \E m \in EventsOf(act) : Step(m, MaxLines)

Next == Clear \/ Add \/ Cancel \/ Modify \/ PassThrough

Spec == Init /\ [][Next]_vars

\* Streams that start with Clear and then hold only non-flagged Adds with
\* order ids not used before and Cancels that name an added id with the side
\* the order rests on.
ClearFirst ==
  /\ lines = 0
  /\ UNCHANGED <<added, addLog>>
  /\ \E m \in EventsOf("R") : Step(m, MaxStreamLines)

AddFresh ==
  /\ lines >= 1 /\ lines < MaxStreamLines
  /\ \E m \in MboMessage :
       /\ m.action = "A" /\ m.flags = 0 /\ m.order_id \in StreamIds \ added
       /\ added' = added \cup {m.order_id}
       /\ UNCHANGED addLog
       /\ Step(m, MaxStreamLines)

CancelOwn ==
  /\ lines >= 1 /\ lines < MaxStreamLines
  /\ UNCHANGED <<added, addLog>>
  /\ \E m \in MboMessage :
       /\ m.action = "C" /\ m.flags = 0 /\ m.price = 1 /\ m.order_id \in added
       /\ IF m.order_id \in DOMAIN orders_
          THEN m.side = orders_[m.order_id].msg.side ELSE m.side = "N"
       /\ Step(m, MaxStreamLines)

NextAddCancel == ClearFirst \/ AddFresh \/ CancelOwn

SpecAddCancel == Init /\ [][NextAddCancel]_vars

\* Streams that hold only Adds, flagged or not, each with an order id not used
\* before and a price not used before on the ladder its side selects.
AddDistinct ==
  /\ lines < MaxAddLines
  /\ UNCHANGED added
  /\ \E m \in MboMessage :
       /\ m.action = "A"
       /\ m.order_id \in StreamIds \ {e.order_id : e \in addLog}
       /\ \A e \in addLog : LadderOf(e.side) = LadderOf(m.side) => e.price # m.price
       /\ addLog' = addLog \cup {Stored(m)}
       /\ Step(m, MaxAddLines)

NextAddOnly == AddDistinct

SpecAddOnly == Init /\ [][NextAddOnly]_vars

\* ----------------------------------------------------------------- claims
Ladders == {"bids", "offers"}
LadderMap(bids, offers, lad) == IF lad = "bids" THEN bids ELSE offers

\* Number of entries of vec equal to a.
Occurrences(vec, a) == Cardinality({i \in 1..Len(vec) : vec[i] = a})

\* The levels <<ladder, price>> of the given ladders holding pointer a.
LevelsHolding(bids, offers, a) ==
  {lp \in Ladders \X (Prices \cup {PRICE_UNDEF}) :
     LET lvl == LadderMap(bids, offers, lp[1])
     IN lp[2] \in DOMAIN lvl /\ Occurrences(lvl[lp[2]], a) > 0}

\* Total number of entries of the given ladders, at price p, equal to a.
EntriesAt(bids, offers, p, a) ==
  (IF p \in DOMAIN bids THEN Occurrences(bids[p], a) ELSE 0)
  + (IF p \in DOMAIN offers THEN Occurrences(offers[p], a) ELSE 0)

\* C1: every order id in the registry is referenced by exactly one price
\* level across both ladders, and that level's price is the order's stored
\* price.
C1_RegisteredOrderInOneLevel ==
  \A k \in DOMAIN orders_ :
    \E lp \in LevelsHolding(bids_, offers_, orders_[k].addr) :
      /\ LevelsHolding(bids_, offers_, orders_[k].addr) = {lp}
      /\ lp[2] = orders_[k].msg.price

\* C2: no ladder entry other than a synthetic top-of-book entry refers to an
\* order that is absent from the registry.
C2_NoReferenceOutlivesOrder ==
  \A a \in (Held(bids_) \cup Held(offers_)) \ {EvtAddr} : a \in UsedAddrs

\* C3: while the synthetic level a flagged Add installed at price P on a
\* side is untouched (no Clear, no flagged Add on that side, no ordinary
\* Add/Modify/Cancel touching P), every snapshot reports (P, 0, 0) for it,
\* whatever the reads of the snapshot yield.
C3_SyntheticLevelReportsZero ==
  \A lad \in Ladders :
    synth[lad] # 0 =>
      \A g \in GarbageReads :
        \E i \in 1..DEFAULT_DEPTH : SideRows(lad, g)[i] = <<synth[lad], 0, 0>>

\* C4: after a non-flagged Add whose order id is already in the registry, the
\* registry entry holds the event's price, size and side, the order is
\* referenced only at the event's price level, and the registry/ladder
\* consistency invariants hold.
C4_LastWriteWins ==
  [][(ev'.action = "A" /\ ~IsTob(ev'.flags) /\ ev'.order_id \in DOMAIN orders_)
       => /\ ev'.order_id \in DOMAIN orders_'
          /\ orders_'[ev'.order_id].msg.price = ev'.price
          /\ orders_'[ev'.order_id].msg.size = ev'.size
          /\ orders_'[ev'.order_id].msg.side = ev'.side
          /\ \A lp \in LevelsHolding(bids_', offers_', orders_'[ev'.order_id].addr) :
               lp[2] = ev'.price
          /\ C1_RegisteredOrderInOneLevel'
          /\ C2_NoReferenceOutlivesOrder']_vars

\* C5: after a Cancel drives a registered order's size to zero, the order is
\* absent from the registry and no level of either ladder references it,
\* whatever the Cancel's side and price.
C5_CancelToZeroRemovesOrder ==
  [][(/\ ev'.action = "C"
      /\ ev'.order_id \in DOMAIN orders_
      /\ orders_[ev'.order_id].msg.size <= ev'.size)
       => /\ ev'.order_id \notin DOMAIN orders_'
          /\ LevelsHolding(bids_', offers_', orders_[ev'.order_id].addr) = {}]_vars

\* C6: after a Modify of a registered order that changes its price, the
\* order is counted exactly once by the snapshot, at the new price, and not
\* at the old price.
C6_ModifyMovesContribution ==
  [][(/\ ev'.action = "M"
      /\ ev'.order_id \in DOMAIN orders_
      /\ orders_[ev'.order_id].msg.price # ev'.price)
       => /\ ev'.order_id \in DOMAIN orders_'
          /\ ~IsTob(orders_'[ev'.order_id].msg.flags)
          /\ EntriesAt(bids_', offers_', ev'.price, orders_'[ev'.order_id].addr) = 1
          /\ \A p \in Prices \ {ev'.price} :
               EntriesAt(bids_', offers_', p, orders_'[ev'.order_id].addr) = 0]_vars

\* C7: no entry of the registry has the top-of-book-replacement flag set.
C7_NoFlaggedRegistryEntry ==
  \A k \in DOMAIN orders_ : ~IsTob(orders_[k].msg.flags)

\* C8: neither ladder contains a price level with zero member references.
C8_NoEmptyLevel ==
  /\ \A p \in DOMAIN bids_ : bids_[p] # <<>>
  /\ \A p \in DOMAIN offers_ : offers_[p] # <<>>

\* C10: a Cancel naming a registered order leaves it with old - requested
\* when requested < old and removes it (size 0) otherwise; a Cancel naming an
\* id absent from the registry changes neither the registry nor a ladder.
C10_CancelReducesByMin ==
  [][ev'.action = "C"
       => IF ev'.order_id \in DOMAIN orders_
          THEN LET old == orders_[ev'.order_id].msg.size
                   new == IF ev'.order_id \in DOMAIN orders_'
                          THEN orders_'[ev'.order_id].msg.size ELSE 0
               IN /\ new = (IF ev'.size < old THEN old - ev'.size ELSE 0)
                  /\ new >= 0
                  /\ (ev'.order_id \in DOMAIN orders_') = (ev'.size < old)
          ELSE UNCHANGED <<orders_, bids_, offers_>>]_vars

\* A partial Cancel has just been applied: the named order is still
\* registered, with less than it had.
C10_Witness ==
  /\ ev.action = "C"
  /\ ev.order_id \in DOMAIN orders_
  /\ orders_[ev.order_id].msg.size = 1
  /\ ev.size = 1

\* The registered orders resting at price p on the side of ladder lad.
LiveAt(lad, p) ==
  {k \in DOMAIN orders_ :
     LadderOf(orders_[k].msg.side) = lad /\ orders_[k].msg.price = p}

RECURSIVE SumSizes(_)
SumSizes(S) ==
  IF S = {} THEN 0
  ELSE LET k == CHOOSE k \in S : TRUE
       IN orders_[k].msg.size + SumSizes(S \ {k})

\* C9: in a stream of a Clear, then non-flagged Adds with distinct ids and
\* own-side Cancels, every non-padding snapshot row reports the sum of the
\* remaining sizes and the number of the live orders at its price on its
\* side.
C9_RowsAggregateLiveOrders ==
  lines >= 1 =>
    \A g \in GarbageReads : \A lad \in Ladders :
      \A i \in 1..Cardinality(DOMAIN LadderMap(bids_, offers_, lad)) :
        LET row == SideRows(lad, g)[i]
        IN /\ row[2] = SumSizes(LiveAt(lad, row[1]))
           /\ row[3] = Cardinality(LiveAt(lad, row[1]))

Padding == <<PRICE_UNDEF, 0, 0>>

\* C11: in the snapshot taken right after a flagged Add at price P, the first
\* row of the event's side is (P, 0, 0) and every other row of that side is
\* padding, whatever the event's size and the book held before.
C11_FlaggedAddRowIsZero ==
  (ev.action = "A" /\ IsTob(ev.flags)) =>
    \A g \in GarbageReads :
      LET rows == SideRows(LadderOf(ev.side), g)
      IN /\ rows[1] = <<ev.price, 0, 0>>
         /\ \A i \in 2..DEFAULT_DEPTH : rows[i] = Padding

\* A flagged Add of size 2 has just been applied to a book that holds
\* registered orders.
C11_Witness ==
  /\ ev.action = "A" /\ IsTob(ev.flags) /\ ev.size = 2
  /\ DOMAIN orders_ # {}
  /\ SideRows(LadderOf(ev.side), [a \in Dangling |-> [flags |-> 0, size |-> 1]])[1]
       = <<ev.price, 0, 0>>

\* The orders the stream has added at a price of a ladder: a flagged Add
\* installs a level but adds no order.
AddedAt(lad, p) ==
  {e \in addLog : LadderOf(e.side) = lad /\ e.price = p /\ ~IsTob(e.flags)}

RECURSIVE SumLogged(_)
SumLogged(S) ==
  IF S = {} THEN 0
  ELSE LET e == CHOOSE e \in S : TRUE
       IN e.size + SumLogged(S \ {e})

LevelsMatchAdds ==
  \A g \in GarbageReads : \A lad \in Ladders :
    LET rows == SideRows(lad, g)
        real == {i \in 1..DEFAULT_DEPTH : rows[i] # Padding}
    IN /\ Cardinality(real)
            = Cardinality({e.price : e \in {x \in addLog : LadderOf(x.side) = lad}})
       /\ \A i \in real : rows[i][2] = SumLogged(AddedAt(lad, rows[i][1]))

Book == [orders |-> orders_, bids |-> bids_, offers |-> offers_, live |-> {}]

\* C13: a Modify whose order id is not registered leaves the registry and the
\* ladders as a non-flagged Add with the same fields would, whatever its flag
\* bits: the id is then registered and referenced at the event's price on the
\* ladder of the event's side.
C13_ModifyUnknownIsPlainAdd ==
  [][(ev'.action = "M" /\ ev'.order_id \notin DOMAIN orders_)
       => /\ \E nb \in add(Book, [ev' EXCEPT !.action = "A", !.flags = 0]) :
               /\ bids_' = nb.bids /\ offers_' = nb.offers
               /\ DOMAIN orders_' = DOMAIN nb.orders
               /\ \A k \in DOMAIN nb.orders :
                    /\ orders_'[k].addr = nb.orders[k].addr
                    /\ orders_'[k].msg.side = nb.orders[k].msg.side
                    /\ orders_'[k].msg.price = nb.orders[k].msg.price
                    /\ orders_'[k].msg.size = nb.orders[k].msg.size
          /\ ev'.order_id \in DOMAIN orders_'
          /\ Occurrences(At(LadderMap(bids_', offers_', LadderOf(ev'.side)), ev'.price),
                         orders_'[ev'.order_id].addr) = 1]_vars

\* The depths snapshot is asked for: 0..MaxDepth and the default.
Depths == (0..MaxDepth) \cup {DEFAULT_DEPTH}

NumLevels(lad) == Cardinality(DOMAIN LadderMap(bids_, offers_, lad))

Min(a, b) == IF a < b THEN a ELSE b

\* C14: in every reachable state and for every depth, snapshot(depth) returns
\* exactly depth bid rows followed by depth ask rows, and each row of a side
\* beyond the number of that side's levels is (undefined price, 0, 0).
C14_SnapshotShape ==
  \A depth \in Depths : \A g \in GarbageReads :
    LET snap == snapshot(depth, g)
    IN /\ Len(snap) = 2 * depth
       /\ \A i \in 1..depth :
            /\ i > NumLevels("bids") => snap[i] = Padding
            /\ i > NumLevels("offers") => snap[depth + i] = Padding
            /\ i <= NumLevels("bids") => snap[i][1] \in DOMAIN bids_
            /\ i <= NumLevels("offers") => snap[depth + i][1] \in DOMAIN offers_

\* The bid ladder holds two levels and the ask ladder none: depth 1 cuts the
\* bid side short and every larger depth pads both sides.
C14_Witness ==
  /\ NumLevels("bids") = 2 /\ NumLevels("offers") = 0
  /\ Len(snapshot(1, [a \in Dangling |-> [flags |-> 0, size |-> 1]])) = 2
  /\ snapshot(MaxDepth, [a \in Dangling |-> [flags |-> 0, size |-> 1]])[MaxDepth] = Padding

\* The positions of the non-padding rows of one side.
RealRows(rows) == {i \in 1..Len(rows) : rows[i] # Padding}

\* C15: for every depth, the non-padding bid rows are the min(depth, number
\* of bid levels) highest-priced bid levels in strictly descending price
\* order, the non-padding ask rows the min(depth, number of ask levels)
\* lowest-priced ask levels in strictly ascending order, and on each side the
\* padding rows come after the non-padding rows.
C15_SnapshotOrder ==
  \A depth \in Depths : \A g \in GarbageReads :
    LET b == fill("bids", TRUE, depth, g)
        a == fill("offers", FALSE, depth, g)
        nb == Min(depth, NumLevels("bids"))
        na == Min(depth, NumLevels("offers"))
    IN /\ RealRows(b) = 1..nb
       /\ RealRows(a) = 1..na
       /\ \A i \in 1..nb :
            /\ b[i][1] \in DOMAIN bids_
            /\ Cardinality({q \in DOMAIN bids_ : q > b[i][1]}) = i - 1
            /\ i > 1 => b[i - 1][1] > b[i][1]
       /\ \A i \in 1..na :
            /\ a[i][1] \in DOMAIN offers_
            /\ Cardinality({q \in DOMAIN offers_ : q < a[i][1]}) = i - 1
            /\ i > 1 => a[i - 1][1] < a[i][1]

\* Both ladders hold two levels, so depth 1 must pick the best of each and
\* depth 2 must order them.
C15_Witness ==
  /\ NumLevels("bids") = 2 /\ NumLevels("offers") = 2
  /\ fill("bids", TRUE, 1, [x \in Dangling |-> [flags |-> 0, size |-> 1]])[1][1] = MaxPrice
  /\ fill("offers", FALSE, 1, [x \in Dangling |-> [flags |-> 0, size |-> 1]])[1][1] = 1

\* C16: right after a Clear, from whatever state it was applied in, the
\* registry and both ladders are empty and the snapshot is depth padding rows
\* on each side.
C16_ClearEmptiesBook ==
  [][ev'.action = "R"
       => /\ orders_' = [k \in {} |-> 0]
          /\ bids_' = EmptyLadder /\ offers_' = EmptyLadder
          /\ \A depth \in Depths : \A g \in GarbageReads' :
               snapshot(depth, g)' = [i \in 1..(2 * depth) |-> Padding]]_vars

\* A Clear has just been applied as the last line of a stream.
C16_Witness ==
  /\ ev.action = "R" /\ lines = MaxLines
  /\ orders_ = [k \in {} |-> 0] /\ bids_ = EmptyLadder /\ offers_ = EmptyLadder

\* C17: a Trade, Fill or None event leaves the registry and both ladders
\* unchanged, and the snapshot taken after it equals the snapshot taken before
\* it, whatever each of the two snapshots reads through the pointers it
\* follows.
C17_PassThroughKeepsSnapshot ==
  [][ev'.action \in {"T", "F", "N"}
       => /\ UNCHANGED <<orders_, bids_, offers_>>
          /\ \A before \in GarbageReads : \A after \in GarbageReads' :
               snapshot(DEFAULT_DEPTH, before) = snapshot(DEFAULT_DEPTH, after)']_vars

\* C18: a flagged Add on side S removes every existing level of S's ladder
\* and installs exactly one level, at the event's price; the registry and the
\* other ladder are unchanged.
C18_FlaggedAddReplacesSide ==
  [][(ev'.action = "A" /\ IsTob(ev'.flags))
       => LET lad == LadderOf(ev'.side)
              other == IF lad = "bids" THEN "offers" ELSE "bids"
              new == LadderMap(bids_', offers_', lad)
          IN /\ DOMAIN new = {ev'.price}
             /\ new[ev'.price] = <<EvtAddr>>
             /\ LadderMap(bids_', offers_', other) = LadderMap(bids_, offers_, other)
             /\ orders_' = orders_]_vars

\* A flagged Add has just been applied at a price other than that of a
\* registered order of its side, and the other ladder holds a level.
C18_Witness ==
  /\ ev.action = "A" /\ IsTob(ev.flags)
  /\ \E k \in DOMAIN orders_ :
       /\ LadderOf(orders_[k].msg.side) = LadderOf(ev.side)
       /\ orders_[k].msg.price # ev.price
  /\ LadderMap(bids_, offers_, IF LadderOf(ev.side) = "bids" THEN "offers" ELSE "bids")
       # EmptyLadder
  /\ DOMAIN LadderMap(bids_, offers_, LadderOf(ev.side)) = {ev.price}

\* Total number of entries of the given ladders equal to a.
Refs(bids, offers, a) ==
  LET Count(lvl) == Cardinality({pi \in (Prices \cup {PRICE_UNDEF}) \X (1..(MaxRefs + 1)) :
                                   /\ pi[1] \in DOMAIN lvl
                                   /\ pi[2] <= Len(lvl[pi[1]])
                                   /\ lvl[pi[1]][pi[2]] = a})
  IN Count(bids) + Count(offers)

\* C19: a Modify of a registered order that is referenced once, at the level
\* of its stored price, and whose price the event keeps, leaves the order
\* referenced exactly once, at that same level, with the event's size stored;
\* if the new size is larger than the old one the order is the last
\* reference of the level and the other references keep their relative
\* order, otherwise the level's sequence is unchanged.
C19_ModifySamePrice ==
  [][(/\ ev'.action = "M"
      /\ ev'.order_id \in DOMAIN orders_
      /\ orders_[ev'.order_id].msg.price = ev'.price
      /\ Refs(bids_, offers_, orders_[ev'.order_id].addr) = 1
      /\ EntriesAt(bids_, offers_, ev'.price, orders_[ev'.order_id].addr) = 1)
       => LET a == orders_[ev'.order_id].addr
              old == orders_[ev'.order_id].msg.size
              lad == CHOOSE l \in Ladders :
                       Occurrences(At(LadderMap(bids_, offers_, l), ev'.price), a) = 1
              vec == LadderMap(bids_, offers_, lad)[ev'.price]
              new == At(LadderMap(bids_', offers_', lad), ev'.price)
          IN /\ ev'.order_id \in DOMAIN orders_'
             /\ orders_'[ev'.order_id].addr = a
             /\ orders_'[ev'.order_id].msg.size = ev'.size
             /\ Refs(bids_', offers_', a) = 1
             /\ Occurrences(new, a) = 1
             /\ IF ev'.size > old
                THEN /\ new[Len(new)] = a
                     /\ RemoveAll(new, a) = RemoveAll(vec, a)
                ELSE new = vec]_vars

\* The stored sides a ladder may hold orders of.
SideOfLadder(lad) == IF lad = "bids" THEN "B" ELSE "A"

\* C20: every registered order referenced from the bid ladder has stored side
\* Bid and every one referenced from the ask ladder has stored side Ask,
\* whatever sides the Adds, Modifies and Cancels of the stream carried.
C20_LadderMatchesStoredSide ==
  \A k \in DOMAIN orders_ : \A lad \in Ladders :
    LET lvl == LadderMap(bids_, offers_, lad)
    IN (\E p \in DOMAIN lvl : Occurrences(lvl[p], orders_[k].addr) > 0)
         => orders_[k].msg.side = SideOfLadder(lad)

====
